---- MODULE Spec2Model ----
(***************************************************************************)
(* A model of boulder's orphan-finder (cmd/orphan-finder/main.go): the     *)
(* two commands parse-ca-log and parse-der, the storage authority and the  *)
(* OCSP generator they call, and the operator who runs the tool again.     *)
(***************************************************************************)
EXTENDS Integers, Sequences, FiniteSets, TLC

(***************************************************************************)
(* Bounds of the model.                                                    *)
(***************************************************************************)
\* the longest log file drawn from the line universe
MaxLines == 2
\* how many times the operator runs parse-ca-log on the same log file
MaxRuns == 2

(***************************************************************************)
(* orphanType and its String method.                                       *)
(***************************************************************************)
unknownOrphan == 0
certOrphan == 1
precertOrphan == 2

orphanTypeString(t) ==
    CASE t = certOrphan -> "certificate"
      [] t = precertOrphan -> "precertificate"
      [] OTHER -> "unknown"

(***************************************************************************)
(* time.Time, time.Duration and int64 nanoseconds.                         *)
(* A Time is [sec, nsec]: whole seconds since the Unix epoch and the       *)
(* nanoseconds within the second.  A Duration d (int64 nanoseconds) is     *)
(* kept as [sec, nsec] = [d / 1e9, d % 1e9] with Go's truncating division, *)
(* so both parts carry the sign of d.  An int64 count of nanoseconds is    *)
(* kept as its decimal digits with a sign.  Seconds stay below 2^31 in     *)
(* this model (years 1902..2037), where sec * 1e9 + nsec fits an int64.    *)
(***************************************************************************)
NanosPerSecond == 10 ^ 9

\* days from 1970-01-01 to the civil date y-m-d (proleptic Gregorian)
DaysFromCivil(y, m, d) ==
    LET yy == IF m <= 2 THEN y - 1 ELSE y
        era == yy \div 400
        yoe == yy - era * 400
        mp == IF m > 2 THEN m - 3 ELSE m + 9
        doy == (153 * mp + 2) \div 5 + d - 1
        doe == yoe * 365 + yoe \div 4 - yoe \div 100 + doy
    IN era * 146097 + doe - 719468

\* the Time of a UTC date and time of day, as ASN.1 UTCTime decodes it
Date(y, m, d, hh, mi, ss) ==
    [sec |-> DaysFromCivil(y, m, d) * 86400 + hh * 3600 + mi * 60 + ss, nsec |-> 0]

\* time.Duration values from their hours, seconds and nanoseconds
Hours(h) == [sec |-> h * 3600, nsec |-> 0]
DurationOf(s, n) == [sec |-> s, nsec |-> n]

\* mutant: the backdate is subtracted from NotBefore
TimeSub(t, d) ==
    LET n0 == t.nsec - d.nsec
        ds == IF n0 >= NanosPerSecond THEN -d.sec + 1 ELSE IF n0 < 0 THEN -d.sec - 1 ELSE -d.sec
        n == IF n0 >= NanosPerSecond THEN n0 - NanosPerSecond
             ELSE IF n0 < 0 THEN n0 + NanosPerSecond ELSE n0
    IN [sec |-> t.sec + ds, nsec |-> n]

\* Time.Add: dsec := d / 1e9; nsec := t.nsec + d % 1e9, carried into dsec
TimeAdd(t, d) ==
    LET n0 == t.nsec + d.nsec
        ds == IF n0 >= NanosPerSecond THEN d.sec + 1 ELSE IF n0 < 0 THEN d.sec - 1 ELSE d.sec
        n == IF n0 >= NanosPerSecond THEN n0 - NanosPerSecond
             ELSE IF n0 < 0 THEN n0 + NanosPerSecond ELSE n0
    IN [sec |-> t.sec + ds, nsec |-> n]

\* the decimal digits of a natural number, most significant first ("0" for 0)
RECURSIVE NatDigits(_)
NatDigits(n) == IF n < 10 THEN <<n>> ELSE Append(NatDigits(n \div 10), n % 10)

\* n written with exactly w digits, zero padded on the left
RECURSIVE PadDigits(_, _)
PadDigits(n, w) == IF w = 0 THEN <<>> ELSE Append(PadDigits(n \div 10, w - 1), n % 10)

\* digits with the leading zeros removed (one digit is always kept)
RECURSIVE StripZeros(_)
StripZeros(ds) == IF Len(ds) > 1 /\ ds[1] = 0 THEN StripZeros(Tail(ds)) ELSE ds

\* the int64 whose value is s * 1e9 + n, for 0 <= n < 1e9: sign and decimal digits
Int64OfSecNsec(s, n) ==
    IF s >= 0
    THEN [neg |-> FALSE, digits |-> StripZeros(NatDigits(s) \o PadDigits(n, 9))]
    ELSE \* s * 1e9 + n = -((-s - 1) * 1e9 + (1e9 - n)) when n > 0
         IF n = 0
         THEN [neg |-> TRUE, digits |-> StripZeros(NatDigits(-s) \o PadDigits(0, 9))]
         ELSE [neg |-> TRUE,
               digits |-> StripZeros(NatDigits(-s - 1) \o PadDigits(NanosPerSecond - n, 9))]

\* mutant: Time.Unix in place of Time.UnixNano (seconds, not nanoseconds)
TimeUnix(t) ==
    IF t.sec >= 0 THEN [neg |-> FALSE, digits |-> NatDigits(t.sec)]
    ELSE [neg |-> TRUE, digits |-> NatDigits(-t.sec)]

\* Time.UnixNano: (seconds since the epoch) * 1e9 + nsec as an int64
UnixNano(t) == Int64OfSecNsec(t.sec, t.nsec)

(***************************************************************************)
(* Log lines.  A line is a sequence of fields; a field is [key, br, val]:  *)
(* the text `key` alone when val is empty and br is FALSE, or `key=` then  *)
(* the characters val, within square brackets when br is TRUE.  A          *)
(* character is 0..9 for '0'..'9', 10..15 for 'a'..'f', and a larger       *)
(* number for a character outside [0-9a-f].  The empty line is <<>>.       *)
(***************************************************************************)
Text(t) == [key |-> t, br |-> FALSE, val |-> <<>>]
Field(k, v) == [key |-> k, br |-> TRUE, val |-> v]
Bare(k, v) == [key |-> k, br |-> FALSE, val |-> v]

\* fmt.Sprintf("orphaning %s", t)
OrphaningLabel(t) == "orphaning " \o orphanTypeString(t)

\* strings.Contains(line, label) for one of the orphaning labels
ContainsLabel(line, t) ==
    \E i \in 1..Len(line) : line[i].key = OrphaningLabel(t) /\ line[i].val = <<>>

\* strings.Contains(line, "cert=")
ContainsCertMarker(line) ==
    \E i \in 1..Len(line) : line[i].key = "cert" /\ (line[i].br \/ line[i].val # <<>>)

\* the leftmost field `key=[val]` whose val is non-empty and drawn from chars
FindBracketed(line, key, chars) ==
    LET hits == {i \in 1..Len(line) :
                    /\ line[i].key = key
                    /\ line[i].br
                    /\ line[i].val # <<>>
                    /\ \A j \in 1..Len(line[i].val) : line[i].val[j] \in chars}
    IN IF hits = {} THEN <<>>
       ELSE LET i == CHOOSE k \in hits : \A h \in hits : k <= h
            IN <<line[i].val, line[i].val>>

\* derOrphan.FindStringSubmatch(line): cert=\[([0-9a-f]+)\]
derOrphan(line) == FindBracketed(line, "cert", 0..15)

\* regOrphan.FindStringSubmatch(line): regID=\[(\d+)\]
regOrphan(line) == FindBracketed(line, "regID", 0..9)

\* the bytes of a hex string of even length
RECURSIVE FromHex(_)
FromHex(h) ==
    IF Len(h) = 0 THEN <<>>
    ELSE <<h[1] * 16 + h[2]>> \o FromHex(SubSeq(h, 3, Len(h)))

\* hex.DecodeString: an odd length or a non-hex character is an error
hexDecodeString(h) ==
    IF Len(h) % 2 = 1 \/ \E j \in 1..Len(h) : h[j] \notin 0..15
    THEN [err |-> TRUE, bytes |-> <<>>]
    ELSE [err |-> FALSE, bytes |-> FromHex(h)]

\* the hex string of a byte sequence (the CA logs cert=[%x])
RECURSIVE ToHex(_)
ToHex(b) ==
    IF Len(b) = 0 THEN <<>>
    ELSE <<b[1] \div 16, b[1] % 16>> \o ToHex(Tail(b))

\* the value of a digit string
RECURSIVE DigitsValue(_)
DigitsValue(ds) ==
    IF Len(ds) = 0 THEN 0 ELSE DigitsValue(SubSeq(ds, 1, Len(ds) - 1)) * 10 + ds[Len(ds)]

\* a < b for digit strings of the same length
RECURSIVE DigitsLess(_, _)
DigitsLess(a, b) ==
    IF Len(a) = 0 THEN FALSE
    ELSE IF a[1] # b[1] THEN a[1] < b[1]
    ELSE DigitsLess(Tail(a), Tail(b))

\* math.MaxInt64 = 9223372036854775807
MaxInt64Digits == <<9,2,2,3,3,7,2,0,3,6,8,5,4,7,7,5,8,0,7>>

\* strconv.ParseInt(s, 10, 64) of a non-empty digit string: a value above
\* MaxInt64 is a range error
strconvParseInt(ds) ==
    LET s == StripZeros(ds)
    IN IF Len(s) > Len(MaxInt64Digits)
          \/ (Len(s) = Len(MaxInt64Digits) /\ DigitsLess(MaxInt64Digits, s))
       THEN [err |-> TRUE, val |-> 0]
       ELSE [err |-> FALSE, val |-> DigitsValue(s)]

(***************************************************************************)
(* Certificates.  The certificates the CA signed, as x509.ParseCertificate *)
(* decodes them: serial number, NotBefore and the extensions' OIDs.  The   *)
(* DER of certificate k is the two bytes 0x30, k.                          *)
(***************************************************************************)
\* RFC 6962 section 3.1, the CT poison extension
poisonExt == <<1, 3, 6, 1, 4, 1, 11129, 2, 4, 3>>
\* id-ce-keyUsage, an extension every certificate carries
keyUsageExt == <<2, 5, 29, 15>>

NoCert == [SerialNumber |-> 0, NotBefore |-> [sec |-> 0, nsec |-> 0], Extensions |-> <<>>]

SignedCerts ==
    [k \in 1..5 |->
        CASE k = 1 -> [SerialNumber |-> 1, NotBefore |-> Date(2020, 1, 1, 0, 0, 0),
                       Extensions |-> <<keyUsageExt>>]
          [] k = 2 -> [SerialNumber |-> 2, NotBefore |-> Date(2021, 6, 15, 12, 30, 45),
                       Extensions |-> <<keyUsageExt>>]
          [] k = 3 -> [SerialNumber |-> 3, NotBefore |-> Date(1969, 12, 31, 23, 59, 59),
                       Extensions |-> <<keyUsageExt>>]
          [] k = 4 -> [SerialNumber |-> 1, NotBefore |-> Date(2020, 1, 1, 0, 0, 0),
                       Extensions |-> <<keyUsageExt, poisonExt>>]
          [] k = 5 -> [SerialNumber |-> 255, NotBefore |-> Date(2021, 6, 15, 12, 30, 45),
                       Extensions |-> <<poisonExt, keyUsageExt>>]]

DerOf(k) == <<48, k>>

\* x509.ParseCertificate
x509ParseCertificate(der) ==
    IF Len(der) = 2 /\ der[1] = 48 /\ der[2] \in DOMAIN SignedCerts
    THEN [err |-> FALSE, cert |-> SignedCerts[der[2]]]
    ELSE [err |-> TRUE, cert |-> NoCert]

\* n written in base 16 with exactly w digits
RECURSIVE PadHex(_, _)
PadHex(n, w) == IF w = 0 THEN <<>> ELSE Append(PadHex(n \div 16, w - 1), n % 16)

\* core.SerialToString: fmt.Sprintf("%036x", serial)
SerialToString(serial) == PadHex(serial, 36)

\* mutant: every certificate is classified as a final certificate
orphanTypeNoPoison(cert) == IF cert = NoCert THEN unknownOrphan ELSE certOrphan

\* orphanTypeForCert: nil -> unknown; the poison extension -> precertificate
orphanTypeForCert(cert) ==
    IF cert = NoCert THEN unknownOrphan
    ELSE IF \E i \in 1..Len(cert.Extensions) : cert.Extensions[i] = poisonExt
         THEN precertOrphan
         ELSE certOrphan

\* the type a parsed certificate is of: a precertificate carries the poison
DerType(cert) ==
    IF \E i \in DOMAIN cert.Extensions : cert.Extensions[i] = poisonExt
    THEN precertOrphan ELSE certOrphan

(***************************************************************************)
(* The inputs of a run: the log files, the DER files, the backdate.        *)
(***************************************************************************)
\* the CA's line for an orphan of certificate k, labelled t:
\* "orphaning <t>: cert=[%x] ... regID=[%d]"
OrphanLine(t, k, reg) ==
    <<Text(OrphaningLabel(t)), Field("cert", ToHex(DerOf(k))), Field("regID", reg)>>

LineUniverse ==
    { <<>>,
      <<Text("Signing success"), Field("cert", ToHex(DerOf(1))), Field("regID", <<7>>)>>,
      <<Text(OrphaningLabel(certOrphan))>>,
      <<Text(OrphaningLabel(certOrphan)), Bare("cert", ToHex(DerOf(1))), Field("regID", <<7>>)>>,
      <<Text(OrphaningLabel(precertOrphan)), Field("cert", <<3, 0, 0>>), Field("regID", <<7>>)>>,
      <<Text(OrphaningLabel(certOrphan)), Field("cert", <<15, 15, 0, 1>>), Field("regID", <<7>>)>>,
      OrphanLine(certOrphan, 1, <<7>>),
      OrphanLine(precertOrphan, 4, <<7>>),
      OrphanLine(precertOrphan, 2, <<0, 9>>),
      <<Text(OrphaningLabel(certOrphan)), Field("cert", ToHex(DerOf(1)))>>,
      OrphanLine(certOrphan, 5, <<9,9,9,9,9,9,9,9,9,9,9,9,9,9,9,9,9,9,9,9>>) }

\* every log of at most n lines
RECURSIVE LogsUpTo(_)
LogsUpTo(n) ==
    IF n = 0 THEN {<<>>}
    ELSE LET shorter == LogsUpTo(n - 1)
         IN shorter \cup {Append(l, x) : l \in {s \in shorter : Len(s) = n - 1}, x \in LineUniverse}

\* three certificate orphans and two precertificate orphans
ExampleLog ==
    << OrphanLine(certOrphan, 1, <<7>>),
       OrphanLine(precertOrphan, 4, <<7>>),
       OrphanLine(certOrphan, 3, <<8>>),
       OrphanLine(certOrphan, 2, <<7>>),
       OrphanLine(precertOrphan, 5, <<1, 2>>) >>

EmptyStore == [cert |-> {}, precert |-> {}]
\* storage that already holds the final certificate with serial s
StoreWithCert(s) == [cert |-> {SerialToString(s)}, precert |-> {}]

\* what parse-ca-log can be started on: a log file and the storage's content
LogScenarios ==
    {[log |-> l, store |-> st] : l \in LogsUpTo(MaxLines), st \in {EmptyStore, StoreWithCert(1)}}
    \cup {[log |-> ExampleLog, store |-> StoreWithCert(3)]}

\* what parse-der can be started on: a DER file, --regID and the storage's content
DerScenarios ==
    {[der |-> d, regID |-> r, store |-> st] :
        d \in {DerOf(1), DerOf(4), <<255, 255>>}, r \in {0, 7},
        st \in {EmptyStore, StoreWithCert(1)}}

\* the configured backdate: one hour, or a negative duration with a fraction
Backdates == {Hours(1), DurationOf(-1, -500000000)}

(***************************************************************************)
(* State.                                                                  *)
(***************************************************************************)
VARIABLES
    command,            \* os.Args[1]
    logData,            \* the lines of --log-file
    derFile,            \* the bytes of --der-file
    regIDFlag,          \* --regID
    backdateDuration,   \* the global set by setup
    certStore,          \* serials of the certificates the SA holds
    precertStore,       \* serials of the precertificates the SA holds
    pc,                 \* where main is
    run,                \* which run of the tool this is
    idx,                \* the index of the next line of the log
    cur,                \* the locals of the candidate being processed
    ret,                \* what storeParsedLogLine last returned
    stats,              \* the four counters of parse-ca-log
    exitCode,           \* -1 while running, then the process's exit status
    calls,              \* the remote calls made for the current candidate
    diags,              \* the log levels written for the current line or file
    hist                \* observations of earlier parts of the run

vars == <<command, logData, derFile, regIDFlag, backdateDuration, certStore,
          precertStore, pc, run, idx, cur, ret, stats, exitCode, calls, diags, hist>>

inputs == <<command, logData, derFile, regIDFlag, backdateDuration>>

NoCandidate ==
    [line |-> <<>>, der |-> <<>>, cert |-> NoCert, typ |-> unknownOrphan,
     serial |-> <<>>, regID |-> 0, response |-> <<>>,
     issuedDate |-> [sec |-> 0, nsec |-> 0]]

ZeroStats ==
    [certOrphansFound |-> 0, certOrphansAdded |-> 0,
     precertOrphansFound |-> 0, precertOrphansAdded |-> 0]

NoRet == [found |-> FALSE, added |-> FALSE, typ |-> unknownOrphan]

\* hist: the storage when this run began; whether every line of the previous
\* run ended with no candidate left to retry, and that run's counters; the
\* same of this run so far;
\* whether a remote call of this run failed; how the last line or file ended;
\* the indices of the lines processed; the lines classified in this run, by type
NoHist ==
    [storeAtStart |-> EmptyStore, prevClean |-> FALSE, prevStats |-> ZeroStats,
     clean |-> TRUE,
     remoteFailed |-> FALSE, last |-> "none", processed |-> <<>>,
     classified |-> [t \in {certOrphan, precertOrphan} |-> 0]]

Init ==
    /\ backdateDuration \in Backdates
    /\ \/ /\ command = "parse-ca-log"
          /\ \E sc \in LogScenarios :
                /\ logData = sc.log
                /\ certStore = sc.store.cert
                /\ precertStore = sc.store.precert
          /\ derFile = <<>>
          /\ regIDFlag = 0
       \/ /\ command = "parse-der"
          /\ \E sc \in DerScenarios :
                /\ derFile = sc.der
                /\ regIDFlag = sc.regID
                /\ certStore = sc.store.cert
                /\ precertStore = sc.store.precert
          /\ logData = <<>>
    /\ pc = "main"
    /\ run = 1
    /\ idx = 1
    /\ cur = NoCandidate
    /\ ret = NoRet
    /\ stats = ZeroStats
    /\ exitCode = -1
    /\ calls = <<>>
    /\ diags = <<>>
    /\ hist = [NoHist EXCEPT !.storeAtStart = [cert |-> certStore, precert |-> precertStore]]

(***************************************************************************)
(* The collaborators: the storage authority and the OCSP generator.  A     *)
(* lookup answers "ok" for a serial the store holds and "notfound" for one *)
(* it does not; an insert answers "ok" and keeps the serial, or            *)
(* "duplicate" for a serial the store holds; every call can also fail with *)
(* "error" (an unavailable remote, a signing error).                       *)
(***************************************************************************)
StoreOf(op) ==
    IF op \in {"GetCertificate", "AddCertificate"} THEN certStore ELSE precertStore

LookupAnswers(op, serial) ==
    (IF serial \in StoreOf(op) THEN {"ok"} ELSE {"notfound"}) \cup {"error"}

AddAnswers(op, serial) ==
    (IF serial \in StoreOf(op) THEN {"duplicate"} ELSE {"ok"}) \cup {"error"}

OCSPAnswers == {"ok", "error"}

\* the request generateOCSP builds
GenerateOCSPRequest(certDER) ==
    [CertDER |-> certDER, Status |-> "good", Reason |-> 0, RevokedAt |-> 0]

\* the response the CA signs for a request
OCSPResponse(req) == <<"ocsp", req.Status, req.CertDER>>

(***************************************************************************)
(* checkDER, in its three parts: parse and classify, the type's lookup,    *)
(* and the reading of the lookup's error.                                  *)
(***************************************************************************)
checkDERParse(der) ==
    LET p == x509ParseCertificate(der)
    IN IF p.err
       THEN [err |-> TRUE, cert |-> NoCert, typ |-> unknownOrphan, serial |-> <<>>]
       ELSE [err |-> FALSE, cert |-> p.cert, typ |-> orphanTypeForCert(p.cert),
             serial |-> SerialToString(p.cert.SerialNumber)]

\* mutant: every lookup goes to the certificate store
lookupOpCertOnly(typ) ==
    IF typ \in {certOrphan, precertOrphan} THEN "GetCertificate" ELSE "none"

\* the switch of checkDER: which lookup the type selects
lookupOp(typ) ==
    CASE typ = certOrphan -> "GetCertificate"
      [] typ = precertOrphan -> "GetPrecertificate"
      [] OTHER -> "none"

\* mutant: a successful lookup is not taken as "already exists"
checkDERResultNoExists(res) ==
    CASE res \in {"ok", "notfound"} -> "proceed"
      [] OTHER -> "failed"

\* mutant: a failed lookup is taken as "not found"
checkDERResultLenient(res) ==
    CASE res = "ok" -> "exists"
      [] OTHER -> "proceed"

\* err == nil -> errAlreadyExists; NotFound -> the certificate; else failed
checkDERResult(res) ==
    CASE res = "ok" -> "exists"
      [] res = "notfound" -> "proceed"
      [] OTHER -> "failed"

(***************************************************************************)
(* storeParsedLogLine's pure steps.                                        *)
(***************************************************************************)
\* mutant: the check for "cert=" is left out
scanLineNoMarkerCheck(line) ==
    IF ~ContainsLabel(line, certOrphan) /\ ~ContainsLabel(line, precertOrphan)
    THEN [kind |-> "nomatch", der |-> <<>>]
    ELSE LET derStr == derOrphan(line)
         IN IF Len(derStr) <= 1
            THEN [kind |-> "noregex", der |-> <<>>]
            ELSE LET d == hexDecodeString(derStr[2])
                 IN IF d.err
                    THEN [kind |-> "badhex", der |-> <<>>]
                    ELSE [kind |-> "der", der |-> d.bytes]

\* from the label checks to hex.DecodeString
scanLine(line) ==
    IF ~ContainsLabel(line, certOrphan) /\ ~ContainsLabel(line, precertOrphan)
    THEN [kind |-> "nomatch", der |-> <<>>]
    ELSE IF ~ContainsCertMarker(line)
    THEN [kind |-> "nomatch", der |-> <<>>]
    ELSE LET derStr == derOrphan(line)
         IN IF Len(derStr) <= 1
            THEN [kind |-> "noregex", der |-> <<>>]
            ELSE LET d == hexDecodeString(derStr[2])
                 IN IF d.err
                    THEN [kind |-> "badhex", der |-> <<>>]
                    ELSE [kind |-> "der", der |-> d.bytes]

\* mutant: a line without a usable regID goes on with registration id 0
parseRegIDDefaultZero(line) ==
    LET regStr == regOrphan(line)
    IN IF Len(regStr) <= 1 \/ strconvParseInt(regStr[2]).err
       THEN [err |-> FALSE, val |-> 0]
       ELSE strconvParseInt(regStr[2])

\* extract the regID
parseRegID(line) ==
    LET regStr == regOrphan(line)
    IN IF Len(regStr) <= 1
       THEN [err |-> TRUE, val |-> 0]
       ELSE strconvParseInt(regStr[2])

\* mutant: a failed OCSP generation is not noticed
generateOCSPNeverFails(res) == FALSE

\* generateOCSP's err != nil
generateOCSPFailed(res) == res # "ok"

\* mutant: the issued date of a log line's orphan is NotBefore minus the backdate
issuedDateSubtracted(cert, backdate) == TimeSub(cert.NotBefore, backdate)

\* issuedDate := cert.NotBefore.Add(backdateDuration)
issuedDate(cert, backdate) == TimeAdd(cert.NotBefore, backdate)

\* mutant: parse-der takes NotBefore itself as the issued date
issuedDateDerNoBackdate(cert, backdate) == cert.NotBefore

\* parse-der: issuedDate := cert.NotBefore.Add(1 * backdateDuration)
issuedDateDer(cert, backdate) == TimeAdd(cert.NotBefore, backdate)

\* mutant: every orphan is inserted as a final certificate
insertOpCertOnly(typ) ==
    IF typ \in {certOrphan, precertOrphan} THEN "AddCertificate" ELSE "none"

\* the switch before the insert: which insert the type selects
insertOp(typ) ==
    CASE typ = certOrphan -> "AddCertificate"
      [] typ = precertOrphan -> "AddPrecertificate"
      [] OTHER -> "none"

\* mutant: the precertificate's Issued is in seconds
issuedNanosInSeconds(t) == TimeUnix(t)

\* issued := issuedDate.UnixNano()
issuedNanos(t) == UnixNano(t)

\* the insert call's record: AddCertificate takes the time, AddPrecertificate
\* an AddCertificateRequest with Issued in nanoseconds
AddCall(op, c, id, res) ==
    IF op = "AddCertificate"
    THEN [op |-> op, serial |-> c.serial, der |-> c.der, regID |-> id,
          ocsp |-> c.response, issued |-> c.issuedDate, res |-> res]
    ELSE [op |-> op, serial |-> c.serial, der |-> c.der, regID |-> id,
          ocsp |-> c.response, issued |-> issuedNanos(c.issuedDate), res |-> res]

(***************************************************************************)
(* main's loop body after storeParsedLogLine returns.                      *)
(***************************************************************************)
\* mutant: the counters follow the line's label, not the returned type
tallyAlwaysCert(st, found, added, typ) ==
    IF typ \notin {certOrphan, precertOrphan} \/ ~found THEN st
    ELSE [st EXCEPT !.certOrphansFound = @ + 1,
                    !.certOrphansAdded = IF added THEN @ + 1 ELSE @]

\* mutant: a found line of unknown type is counted with the certificates
tallyUnknownAsCert(st, found, added, typ) ==
    CASE typ = precertOrphan /\ found ->
            [st EXCEPT !.precertOrphansFound = @ + 1,
                       !.precertOrphansAdded = IF added THEN @ + 1 ELSE @]
      [] typ # precertOrphan /\ found ->
            [st EXCEPT !.certOrphansFound = @ + 1,
                       !.certOrphansAdded = IF added THEN @ + 1 ELSE @]
      [] OTHER -> st

\* mutant: only the lines that were added count as found
tallyFoundIfAdded(st, found, added, typ) ==
    CASE typ = certOrphan /\ found /\ added ->
            [st EXCEPT !.certOrphansFound = @ + 1, !.certOrphansAdded = @ + 1]
      [] typ = precertOrphan /\ found /\ added ->
            [st EXCEPT !.precertOrphansFound = @ + 1, !.precertOrphansAdded = @ + 1]
      [] OTHER -> st

\* the switch on typ and the increments of *foundStat and *addStat
tally(st, found, added, typ) ==
    CASE typ = certOrphan /\ found ->
            [st EXCEPT !.certOrphansFound = @ + 1,
                       !.certOrphansAdded = IF added THEN @ + 1 ELSE @]
      [] typ = precertOrphan /\ found ->
            [st EXCEPT !.precertOrphansFound = @ + 1,
                       !.precertOrphansAdded = IF added THEN @ + 1 ELSE @]
      [] OTHER -> st

\* main's own diagnostic for a type that is neither: logger.Errf("Found orphan type %s")
tallyDiags(typ) == IF typ \in {certOrphan, precertOrphan} THEN <<>> ELSE <<"err">>

\* mutant: the loop does not move on to the next line
loopStuck(i) == i

\* the range loop's step
loopNext(i) == i + 1

\* how a line can end without a candidate left to retry: not an orphan's
\* line, no DER in it, or the candidate stored or already existing
CleanOutcomes == {"nomatch", "noregex", "badhex", "parse", "exists", "added"}

\* storeParsedLogLine returns (found, added, typ) having written the levels ds
\* and made the calls cs; main tallies the line and moves on to the next one
Return(how, found, added, typ, c, cs, ds) ==
    /\ ret' = [found |-> found, added |-> added, typ |-> typ]
    /\ stats' = tally(stats, found, added, typ)
    /\ diags' = ds \o tallyDiags(typ)
    /\ calls' = cs
    /\ cur' = c
    /\ idx' = loopNext(idx)
    /\ pc' = "line"
    /\ hist' = [hist EXCEPT !.clean = @ /\ how \in CleanOutcomes,
                            !.last = how,
                            !.processed = Append(@, idx),
                            !.remoteFailed =
                                @ \/ \E i \in 1..Len(cs) : cs[i].res \in {"error", "duplicate"}]

(***************************************************************************)
(* parse-ca-log.  What storeParsedLogLine computes from the line alone is  *)
(* tabulated over the lines a log can hold, so that a step looks it up.    *)
(***************************************************************************)
\* every line a log holds
AllLines == LineUniverse \cup {ExampleLog[i] : i \in 1..Len(ExampleLog)}

\* scanLine of each line
scanLineOf == [line \in AllLines |-> scanLine(line)]

\* checkDERParse of each DER a line decodes to
checkDERParseOf == [der \in {scanLineOf[line].der : line \in AllLines} |-> checkDERParse(der)]

\* parseRegID of each line
parseRegIDOf == [line \in AllLines |-> parseRegID(line)]

\* main reads the log file and enters the loop
MainParseCaLog ==
    /\ pc = "main"
    /\ command = "parse-ca-log"
    /\ pc' = "line"
    /\ UNCHANGED <<inputs, certStore, precertStore, run, idx, cur, ret, stats,
                   exitCode, calls, diags, hist>>

\* the loop takes the next line: an empty line is skipped; otherwise
\* storeParsedLogLine runs up to checkDER's lookup
ReadLine ==
    /\ pc = "line"
    /\ idx <= Len(logData)
    /\ \E line \in {logData[idx]} : \E sc \in {scanLineOf[line]} :
       \E chk \in {checkDERParseOf[sc.der]} : \E c \in {[NoCandidate EXCEPT !.line = line]} :
          IF line = <<>>
          THEN /\ idx' = loopNext(idx)
               /\ UNCHANGED <<pc, cur, ret, stats, calls, diags, hist>>
          ELSE IF sc.kind = "nomatch"
          THEN Return("nomatch", FALSE, FALSE, unknownOrphan, c, <<>>, <<>>)
          ELSE IF sc.kind \in {"noregex", "badhex"}
          THEN Return(sc.kind, TRUE, FALSE, unknownOrphan, c, <<>>, <<"audit">>)
          ELSE IF chk.err
          THEN Return("parse", TRUE, FALSE, chk.typ, c, <<>>, <<"err">>)
          ELSE /\ cur' = [c EXCEPT !.der = sc.der, !.cert = chk.cert,
                                   !.typ = chk.typ, !.serial = chk.serial]
               /\ calls' = <<>>
               /\ diags' = <<>>
               /\ pc' = "lookup"
               /\ hist' = [hist EXCEPT !.classified[DerType(chk.cert)] = @ + 1]
               /\ UNCHANGED <<idx, ret, stats>>
    /\ UNCHANGED <<inputs, certStore, precertStore, run, exitCode>>

\* checkDER's lookup and, when the serial is not found, the regID's extraction
LookupExisting ==
    /\ pc = "lookup"
    /\ \E op \in {lookupOp(cur.typ)} :
          \E res \in (IF op = "none" THEN {"error"} ELSE LookupAnswers(op, cur.serial)) :
            \E cs \in {IF op = "none" THEN calls
                        ELSE Append(calls, [op |-> op, serial |-> cur.serial, res |-> res])} :
            \E out \in {checkDERResult(res)} : \E reg \in {parseRegIDOf[cur.line]} :
               IF out = "exists"
               THEN Return("exists", TRUE, FALSE, cur.typ, cur, cs, <<"info">>)
               ELSE IF out = "failed"
               THEN Return("lookupfailed", TRUE, FALSE, cur.typ, cur, cs, <<"err">>)
               ELSE IF reg.err
               THEN Return("noreg", TRUE, FALSE, cur.typ, cur, cs, <<"audit">>)
               ELSE /\ cur' = [cur EXCEPT !.regID = reg.val]
                    /\ calls' = cs
                    /\ pc' = "ocsp"
                    /\ UNCHANGED <<idx, ret, stats, diags, hist>>
    /\ UNCHANGED <<inputs, certStore, precertStore, run, exitCode>>

\* generateOCSP, then the issued date
GenerateOCSP ==
    /\ pc = "ocsp"
    /\ \E res \in OCSPAnswers :
          \E req \in {GenerateOCSPRequest(cur.der)} :
          \E cs \in {Append(calls, [op |-> "GenerateOCSP", req |-> req, res |-> res])} :
             IF generateOCSPFailed(res)
             THEN Return("ocspfailed", TRUE, FALSE, cur.typ, cur, cs, <<"audit">>)
             ELSE /\ cur' = [cur EXCEPT !.response = OCSPResponse(req),
                                        !.issuedDate = issuedDate(cur.cert, backdateDuration)]
                  /\ calls' = cs
                  /\ pc' = "insert"
                  /\ UNCHANGED <<idx, ret, stats, diags, hist>>
    /\ UNCHANGED <<inputs, certStore, precertStore, run, exitCode>>

\* the storage after an insert answered res
StoreAfter(store, mine, serial, res) ==
    IF mine /\ res = "ok" THEN store \cup {serial} ELSE store

\* the insert the type selects, and the return
StoreOrphan ==
    /\ pc = "insert"
    /\ \E op \in {insertOp(cur.typ)} :
          \E res \in (IF op = "none" THEN {"error"} ELSE AddAnswers(op, cur.serial)) :
            \E cs \in {IF op = "none" THEN calls
                        ELSE Append(calls, AddCall(op, cur, cur.regID, res))} :
               /\ certStore' = StoreAfter(certStore, op = "AddCertificate", cur.serial, res)
               /\ precertStore' =
                     StoreAfter(precertStore, op = "AddPrecertificate", cur.serial, res)
               /\ IF res # "ok"
                  THEN Return("insertfailed", TRUE, FALSE, cur.typ, cur, cs, <<"audit">>)
                  ELSE /\ Return("added", TRUE, TRUE, cur.typ, cur, cs, <<>>)
    /\ UNCHANGED <<inputs, run, exitCode>>

\* after the last line: the two summary lines, and main returns
Summarize ==
    /\ pc = "line"
    /\ idx > Len(logData)
    /\ pc' = "done"
    /\ exitCode' = 0
    /\ diags' = <<"info", "info">>
    /\ UNCHANGED <<inputs, certStore, precertStore, run, idx, cur, ret, stats, calls, hist>>

\* the operator runs parse-ca-log again on the same log file and storage
RunAgain ==
    /\ pc = "done"
    /\ command = "parse-ca-log"
    /\ run < MaxRuns
    /\ run' = run + 1
    /\ pc' = "line"
    /\ idx' = 1
    /\ cur' = NoCandidate
    /\ ret' = NoRet
    /\ stats' = ZeroStats
    /\ exitCode' = -1
    /\ calls' = <<>>
    /\ diags' = <<>>
    /\ hist' = [NoHist EXCEPT !.storeAtStart = [cert |-> certStore, precert |-> precertStore],
                              !.prevClean = hist.clean,
                              !.prevStats = stats]
    /\ UNCHANGED <<inputs, certStore, precertStore>>

(***************************************************************************)
(* parse-der.                                                              *)
(***************************************************************************)
\* mutant: cmd.FailOnError logs the error and main returns normally
FailOnErrorReturns(how, cs) ==
    /\ pc' = "done"
    /\ exitCode' = 0
    /\ diags' = Append(diags, "audit")
    /\ calls' = cs
    /\ hist' = [hist EXCEPT !.last = how]

\* cmd.FailOnError with an error: an audit-level line, then os.Exit(1)
Fatal(how, cs) ==
    /\ pc' = "fatal"
    /\ exitCode' = 1
    /\ diags' = Append(diags, "audit")
    /\ calls' = cs
    /\ hist' = [hist EXCEPT !.last = how]

\* main checks --regID, reads the DER file, and checkDER parses it
MainParseDer ==
    /\ pc = "main"
    /\ command = "parse-der"
    /\ LET chk == checkDERParse(derFile)
       IN IF regIDFlag = 0
          THEN /\ pc' = "usage"
               /\ exitCode' = 1
               /\ UNCHANGED <<cur, calls, diags, hist>>
          ELSE IF chk.err
          THEN Fatal("parse", calls) /\ UNCHANGED cur
          ELSE /\ cur' = [NoCandidate EXCEPT !.der = derFile, !.cert = chk.cert,
                                             !.typ = chk.typ, !.serial = chk.serial,
                                             !.regID = regIDFlag]
               /\ pc' = "der_lookup"
               /\ hist' = [hist EXCEPT !.classified[DerType(chk.cert)] = @ + 1]
               /\ UNCHANGED <<exitCode, calls, diags>>
    /\ UNCHANGED <<inputs, certStore, precertStore, run, idx, ret, stats>>

\* checkDER's lookup; any error, errAlreadyExists too, is fatal
DerLookupExisting ==
    /\ pc = "der_lookup"
    /\ \E op \in {lookupOp(cur.typ)} :
          \E res \in (IF op = "none" THEN {"error"} ELSE LookupAnswers(op, cur.serial)) :
            LET cs == IF op = "none" THEN calls
                      ELSE Append(calls, [op |-> op, serial |-> cur.serial, res |-> res])
                out == checkDERResult(res)
            IN IF out = "exists"
               THEN Fatal("exists", cs) /\ UNCHANGED cur
               ELSE IF out = "failed"
               THEN Fatal("lookupfailed", cs) /\ UNCHANGED cur
               ELSE /\ cur' = [cur EXCEPT
                                 !.issuedDate = issuedDateDer(cur.cert, backdateDuration)]
                    /\ calls' = cs
                    /\ pc' = "der_ocsp"
                    /\ UNCHANGED <<exitCode, diags, hist>>
    /\ UNCHANGED <<inputs, certStore, precertStore, run, idx, ret, stats>>

\* generateOCSP
DerGenerateOCSP ==
    /\ pc = "der_ocsp"
    /\ \E res \in OCSPAnswers :
          LET req == GenerateOCSPRequest(cur.der)
              cs == Append(calls, [op |-> "GenerateOCSP", req |-> req, res |-> res])
          IN IF generateOCSPFailed(res)
             THEN Fatal("ocspfailed", cs) /\ UNCHANGED cur
             ELSE /\ cur' = [cur EXCEPT !.response = OCSPResponse(req)]
                  /\ calls' = cs
                  /\ pc' = "der_insert"
                  /\ UNCHANGED <<exitCode, diags, hist>>
    /\ UNCHANGED <<inputs, certStore, precertStore, run, idx, ret, stats>>

\* the insert the type selects; main returns when it succeeds
DerStoreOrphan ==
    /\ pc = "der_insert"
    /\ \E op \in {insertOp(cur.typ)} :
          \E res \in (IF op = "none" THEN {"error"} ELSE AddAnswers(op, cur.serial)) :
            \E cs \in {IF op = "none" THEN calls
                        ELSE Append(calls, AddCall(op, cur, cur.regID, res))} :
               /\ certStore' = StoreAfter(certStore, op = "AddCertificate", cur.serial, res)
               /\ precertStore' =
                     StoreAfter(precertStore, op = "AddPrecertificate", cur.serial, res)
               /\ IF res # "ok"
                  THEN Fatal("insertfailed", cs)
                  ELSE /\ pc' = "done"
                       /\ exitCode' = 0
                       /\ calls' = cs
                       /\ hist' = [hist EXCEPT !.last = "added"]
                       /\ UNCHANGED diags
    /\ UNCHANGED <<inputs, run, idx, cur, ret, stats>>

(***************************************************************************)
(* Another recovery run, working on the same serial, inserts it between    *)
(* this run's existence check and its insert.                              *)
(***************************************************************************)
OtherRunInserts ==
    /\ pc \in {"ocsp", "insert", "der_ocsp", "der_insert"}
    /\ cur.serial \notin StoreOf(insertOp(cur.typ))
    /\ certStore' = StoreAfter(certStore, cur.typ = certOrphan, cur.serial, "ok")
    /\ precertStore' = StoreAfter(precertStore, cur.typ = precertOrphan, cur.serial, "ok")
    /\ UNCHANGED <<inputs, pc, run, idx, cur, ret, stats, exitCode, calls, diags, hist>>

(***************************************************************************)
(* Specifications.                                                         *)
(***************************************************************************)
Next ==
    \/ MainParseCaLog
    \/ ReadLine
    \/ LookupExisting
    \/ GenerateOCSP
    \/ StoreOrphan
    \/ Summarize
    \/ RunAgain
    \/ MainParseDer
    \/ DerLookupExisting
    \/ DerGenerateOCSP
    \/ DerStoreOrphan

\* the tool alone against its collaborators
Spec == Init /\ [][Next]_vars

\* every call returns and main runs on: the tool's steps are taken
\* while they are enabled
FairSpec == Spec /\ WF_vars(Next)

NextRace == Next \/ OtherRunInserts

\* the tool beside a concurrent recovery run
RaceSpec == Init /\ [][NextRace]_vars

(***************************************************************************)
(* Properties.                                                             *)
(***************************************************************************)
IsLookup(c) == c.op \in {"GetCertificate", "GetPrecertificate"}
IsInsert(c) == c.op \in {"AddCertificate", "AddPrecertificate"}
IsOCSP(c) == c.op = "GenerateOCSP"

InLogMode == command = "parse-ca-log"
Stores == [cert |-> certStore, precert |-> precertStore]
\* a line's processing is over (the loop is at its head, or main has returned)
LineDone == InLogMode /\ pc \in {"line", "done"} /\ hist.last # "none"

\* C1 as stated: a second run of the same log against the same storage makes
\* no successful insert, leaves the stored set unchanged, and every one of
\* its candidates resolves as already existing at the existence check.
C1_SecondRunAddsNothing ==
    (InLogMode /\ run >= 2) =>
        /\ stats.certOrphansAdded = 0
        /\ stats.precertOrphansAdded = 0
        /\ Stores = hist.storeAtStart
        /\ pc \notin {"ocsp", "insert"}
        /\ hist.last \in {"none", "nomatch", "noregex", "badhex", "parse", "exists"}

\* C1 amended: when every line of the first run ended with no candidate left
\* to retry (each candidate was added or already existed), the second run
\* makes no successful insert, leaves the stored set unchanged, goes past the
\* existence check for no candidate, and every candidate whose lookup is
\* answered resolves as already existing.
C1_RerunAfterCleanRunAddsNothing ==
    (InLogMode /\ run >= 2 /\ hist.prevClean) =>
        /\ stats.certOrphansAdded = 0
        /\ stats.precertOrphansAdded = 0
        /\ Stores = hist.storeAtStart
        /\ pc \notin {"ocsp", "insert"}
        /\ hist.last \in {"none", "nomatch", "noregex", "badhex", "parse",
                          "exists", "lookupfailed"}
        /\ (pc \in {"line", "done"} /\ hist.last = "lookupfailed" =>
                calls[Len(calls)].res = "error")

\* a second run has ended whose candidate the first run added
C1_Witness ==
    /\ InLogMode /\ run = 2 /\ pc = "done" /\ hist.prevClean
    /\ hist.prevStats.certOrphansAdded + hist.prevStats.precertOrphansAdded >= 1
    /\ hist.last = "exists"
    /\ ret.found /\ ~ret.added

\* C2: a candidate whose lookup succeeds (the storage holds the serial) ends
\* found=true, added=false with the type of its DER, and neither GenerateOCSP
\* nor an insert is called for it.
C2_ExistingCandidateSkipped ==
    (InLogMode /\ \E i \in 1..Len(calls) : IsLookup(calls[i]) /\ calls[i].res = "ok") =>
        /\ Len(calls) = 1
        /\ pc \in {"line", "done"}
        /\ ret = [found |-> TRUE, added |-> FALSE, typ |-> DerType(cur.cert)]

\* a precertificate's line has ended at a lookup that found its serial
C2_Witness ==
    /\ LineDone /\ Len(calls) = 1 /\ calls[1].op = "GetPrecertificate" /\ calls[1].res = "ok"
    /\ ret.typ = precertOrphan

\* C3: every insert call follows, for the same candidate, a lookup of that
\* serial that answered NotFound; after a lookup that found the serial or
\* failed, or a DER that did not parse, no insert call is made (both modes).
C3_InsertOnlyAfterNotFound ==
    /\ \A i \in 1..Len(calls) :
          IsInsert(calls[i]) =>
              \E j \in 1..(i - 1) :
                  /\ IsLookup(calls[j])
                  /\ calls[j].serial = calls[i].serial
                  /\ calls[j].res = "notfound"
    /\ (\E j \in 1..Len(calls) : IsLookup(calls[j]) /\ calls[j].res \in {"ok", "error"}) =>
          /\ \A i \in 1..Len(calls) : ~IsInsert(calls[i])
          /\ pc \notin {"ocsp", "insert", "der_ocsp", "der_insert"}
    /\ (pc \in {"line", "done", "fatal"} /\ hist.last = "parse") => calls = <<>>
    /\ pc \in {"insert", "der_insert"} =>
          \E j \in 1..Len(calls) : IsLookup(calls[j]) /\ calls[j].res = "notfound"

\* parse-der has inserted its certificate
C3_Witness ==
    /\ command = "parse-der"
    /\ \E i \in 1..Len(calls) : IsInsert(calls[i]) /\ calls[i].res = "ok"

\* the indices of the non-empty lines among the first n lines of a log, ascending
RECURSIVE NonEmptyIndices(_, _)
NonEmptyIndices(log, n) ==
    IF n = 0 THEN <<>>
    ELSE IF log[n] = <<>> THEN NonEmptyIndices(log, n - 1)
    ELSE Append(NonEmptyIndices(log, n - 1), n)

Range(f) == {f[i] : i \in DOMAIN f}

\* C4: parse-ca-log always completes: whatever the lines' outcomes, no line
\* ends the process, every non-empty line is processed exactly once in
\* order, and the run ends with the summary written and exit status 0.
C4_BatchCompletes ==
    /\ [](InLogMode => (pc \notin {"fatal", "usage"} /\ exitCode # 1))
    /\ (InLogMode /\ pc # "done") ~>
           (/\ pc = "done"
            /\ exitCode = 0
            /\ diags = <<"info", "info">>
            /\ hist.processed = NonEmptyIndices(logData, Len(logData)))

\* a run of two lines has ended after an insert failed
C4_Witness ==
    /\ InLogMode /\ pc = "done" /\ exitCode = 0
    /\ Len(hist.processed) = 2
    /\ hist.last = "insertfailed"
    /\ ~hist.clean

\* the records of type t the storage gained since this run began
GainedCerts == certStore \ hist.storeAtStart.cert
GainedPrecerts == precertStore \ hist.storeAtStart.precert

\* C5: at the end of a parse-ca-log run, each type's Found counter is the
\* number of lines whose DER was classified as that type and its Added
\* counter the number of inserts that succeeded; the log of three
\* certificate orphans (one already stored) and two precertificate orphans,
\* with every remote call succeeding, ends with 3, 2, 2, 2.
C5_CountersAtEnd ==
    (InLogMode /\ pc = "done") =>
        /\ stats.certOrphansFound = hist.classified[certOrphan]
        /\ stats.precertOrphansFound = hist.classified[precertOrphan]
        /\ stats.certOrphansAdded = Cardinality(GainedCerts)
        /\ stats.precertOrphansAdded = Cardinality(GainedPrecerts)
        /\ (logData = ExampleLog /\ hist.storeAtStart = StoreWithCert(3) /\ ~hist.remoteFailed) =>
              stats = [certOrphansFound |-> 3, certOrphansAdded |-> 2,
                       precertOrphansFound |-> 2, precertOrphansAdded |-> 2]

\* the example log's run has ended with every remote call having succeeded
C5_Witness ==
    /\ InLogMode /\ pc = "done" /\ run = 1
    /\ logData = ExampleLog
    /\ hist.storeAtStart = StoreWithCert(3)
    /\ ~hist.remoteFailed
    /\ stats.certOrphansFound = 3

\* C6 as stated: an insert that answers with a duplicate error is treated
\* like AlreadyExists: the process does not fail, the line is logged at
\* informational level and not at error or audit level, and the candidate
\* is not counted as added.
C6_DuplicateTreatedAsExisting ==
    (calls # <<>> /\ IsInsert(calls[Len(calls)]) /\ calls[Len(calls)].res = "duplicate") =>
        /\ pc # "fatal"
        /\ exitCode # 1
        /\ "audit" \notin Range(diags)
        /\ "err" \notin Range(diags)
        /\ "info" \in Range(diags)
        /\ (InLogMode => ~ret.added)

\* the line carries an orphaning label and the DER marker
HasLabelAndMarker(line) ==
    /\ \E i \in DOMAIN line :
          line[i].key \in {"orphaning certificate", "orphaning precertificate"}
    /\ \E i \in DOMAIN line : line[i].key = "cert"

\* the line carries no regID=[digits] whose digits make an int64 (at most 18
\* digits always do; the lines of this model have at most 2 or else 20)
RegIDMalformed(line) ==
    ~\E i \in DOMAIN line :
        /\ line[i].key = "regID" /\ line[i].br
        /\ line[i].val # <<>>
        /\ \A j \in DOMAIN line[i].val : line[i].val[j] \in 0..9
        /\ Len(line[i].val) <= 18

\* C7 as stated: a line with a label and the DER marker whose registration
\* id cannot be extracted or parsed is abandoned with an audit-level
\* diagnostic and no remote call at all.
C7_BadRegIDNoRemoteCall ==
    (LineDone /\ HasLabelAndMarker(cur.line) /\ RegIDMalformed(cur.line)) =>
        /\ "audit" \in Range(diags) \/ pc = "done"
        /\ calls = <<>>

\* C7 amended: for such a line neither GenerateOCSP nor an insert is called
\* and nothing is added; the existence lookup is made before the
\* registration id is examined, and the audit-level diagnostic about the
\* registration id is written when that lookup answers NotFound.
C7_BadRegIDNoOCSPNoInsert ==
    /\ (InLogMode /\ pc \in {"ocsp", "insert"}) => ~RegIDMalformed(cur.line)
    /\ (LineDone /\ HasLabelAndMarker(cur.line) /\ RegIDMalformed(cur.line)) =>
          /\ ~ret.added
          /\ \A i \in 1..Len(calls) : IsLookup(calls[i])
          /\ Len(calls) <= 1
          /\ (hist.last = "noreg") = (Len(calls) = 1 /\ calls[1].res = "notfound")
          /\ (hist.last = "noreg" /\ pc = "line") => diags = <<"audit">>

\* a line without a regID has been abandoned after its lookup answered NotFound
C7_Witness ==
    /\ LineDone /\ pc = "line" /\ hist.last = "noreg"
    /\ RegIDMalformed(cur.line)
    /\ Len(calls) = 1 /\ calls[1].res = "notfound"
    /\ diags = <<"audit">>

\* NotBefore + backdate as an instant: seconds and nanoseconds, normalised
IssuedInstant(cert, d) ==
    LET n == cert.NotBefore.nsec + d.nsec
    IN [sec |-> cert.NotBefore.sec + d.sec + n \div NanosPerSecond,
        nsec |-> n % NanosPerSecond]

\* an instant as the decimal digits of its nanoseconds since the epoch
InstantNanos(t) == Int64OfSecNsec(t.sec, t.nsec)

\* the number a line's regID=[digits] field writes
LineRegID(line) ==
    LET i == CHOOSE k \in DOMAIN line : line[k].key = "regID"
    IN DigitsValue(line[i].val)

\* the current candidate is over, in either mode
CandidateDone == pc \in {"line", "done", "fatal"}

\* C8: the issuance time given to an insert is NotBefore + backdate in both
\* modes; a precertificate candidate with a well-formed registration id
\* whose lookup answers NotFound and whose OCSP generation succeeds gets
\* exactly one AddPrecertificate call, with Issued that instant in
\* nanoseconds since the epoch, and no AddCertificate call.
C8_IssuedIsNotBeforePlusBackdate ==
    /\ \A i \in 1..Len(calls) :
          IsInsert(calls[i]) =>
              calls[i].issued =
                  IF calls[i].op = "AddCertificate"
                  THEN IssuedInstant(cur.cert, backdateDuration)
                  ELSE InstantNanos(IssuedInstant(cur.cert, backdateDuration))
    /\ (/\ CandidateDone
        /\ cur.cert # NoCert
        /\ DerType(cur.cert) = precertOrphan
        /\ Len(calls) >= 2
        /\ calls[1].res = "notfound"
        /\ calls[2].res = "ok") =>
          /\ Len(calls) = 3
          /\ calls[3].op = "AddPrecertificate"
          /\ calls[3].regID = (IF InLogMode THEN LineRegID(cur.line) ELSE regIDFlag)
          /\ calls[3].ocsp = <<"ocsp", "good", cur.der>>
          /\ \A i \in 1..Len(calls) : calls[i].op # "AddCertificate"

\* a log line's precertificate was inserted under the backdate with a fraction
C8_Witness ==
    /\ InLogMode /\ CandidateDone
    /\ backdateDuration.nsec # 0
    /\ Len(calls) = 3 /\ calls[3].op = "AddPrecertificate" /\ calls[3].res = "ok"
    /\ hist.last = "added"

\* nine zeros after the digits of a count of seconds
SecondsAsNanos(ds) == [neg |-> FALSE, digits |-> ds \o <<0, 0, 0, 0, 0, 0, 0, 0, 0>>]

\* the inserts of a certificate with NotBefore 2020-01-01T00:00:00Z under a
\* backdate of one hour carry the time t, or its nanoseconds n
NewYearInsertsCarry(t, n) ==
    (backdateDuration = Hours(1) /\ cur.cert.NotBefore = Date(2020, 1, 1, 0, 0, 0)) =>
        \A i \in 1..Len(calls) :
            /\ calls[i].op = "AddCertificate" => calls[i].issued = t
            /\ calls[i].op = "AddPrecertificate" => calls[i].issued = n

\* C9 as stated: with NotBefore = 2020-01-01T00:00:00Z and a backdate of one
\* hour the issuance time given to the insert is 2019-12-31T23:00:00Z, as a
\* time and as nanoseconds.
C9_IssuedIsHourBefore ==
    NewYearInsertsCarry(Date(2019, 12, 31, 23, 0, 0),
                        SecondsAsNanos(<<1, 5, 7, 7, 8, 3, 3, 2, 0, 0>>))

\* C9 amended: the issuance time is 2020-01-01T01:00:00Z (NotBefore plus the
\* hour), as a time and as 1577840400000000000 nanoseconds.
C9_IssuedIsHourAfter ==
    NewYearInsertsCarry(Date(2020, 1, 1, 1, 0, 0),
                        SecondsAsNanos(<<1, 5, 7, 7, 8, 4, 0, 4, 0, 0>>))

\* parse-der has inserted the precertificate of 2020-01-01 under the hour's backdate
C9_Witness ==
    /\ command = "parse-der" /\ pc = "done"
    /\ backdateDuration = Hours(1)
    /\ cur.cert.NotBefore = Date(2020, 1, 1, 0, 0, 0)
    /\ Len(calls) = 3 /\ calls[3].op = "AddPrecertificate" /\ calls[3].res = "ok"

\* the remote operations of a type
OpsOfType(t) ==
    IF t = precertOrphan THEN {"GetPrecertificate", "GenerateOCSP", "AddPrecertificate"}
    ELSE {"GetCertificate", "GenerateOCSP", "AddCertificate"}

\* C10: a candidate's type comes from its DER alone (poison extension:
\* precertificate, else certificate), whatever the line's label, and stays
\* fixed: the lookup and the insert go to that type's store and the batch
\* counters that move are that type's.
C10_TypeFromDERAlone ==
    /\ cur.cert # NoCert =>
          /\ cur.typ = DerType(cur.cert)
          /\ \A i \in 1..Len(calls) : calls[i].op \in OpsOfType(DerType(cur.cert))
          /\ LineDone => ret.typ = DerType(cur.cert)
    /\ (InLogMode /\ pc \in {"line", "done"}) =>
          /\ stats.certOrphansFound = hist.classified[certOrphan]
          /\ stats.precertOrphansFound = hist.classified[precertOrphan]
          /\ stats.certOrphansAdded = Cardinality(GainedCerts)
          /\ stats.precertOrphansAdded = Cardinality(GainedPrecerts)

\* a final certificate logged under the precertificate label went to AddCertificate
C10_Witness ==
    /\ LineDone /\ pc = "line"
    /\ \E i \in DOMAIN cur.line : cur.line[i].key = "orphaning precertificate"
    /\ DerType(cur.cert) = certOrphan
    /\ Len(calls) = 3 /\ calls[1].op = "GetCertificate"
    /\ calls[3].op = "AddCertificate" /\ calls[3].res = "ok"
    /\ ret = [found |-> TRUE, added |-> TRUE, typ |-> certOrphan]
    /\ stats.certOrphansAdded >= 1 /\ stats.precertOrphansFound = 0

\* at most one lookup, then at most one GenerateOCSP, then at most one insert
CallsInOrder ==
    /\ Len(calls) <= 3
    /\ Len(calls) >= 1 => IsLookup(calls[1])
    /\ Len(calls) >= 2 => IsOCSP(calls[2])
    /\ Len(calls) >= 3 => IsInsert(calls[3])

\* the GenerateOCSP call of the current candidate failed
OCSPCallFailed == \E i \in 1..Len(calls) : IsOCSP(calls[i]) /\ calls[i].res # "ok"

\* C11: no retries: a candidate gets at most one lookup, one GenerateOCSP
\* and one insert, in that order; after a failed GenerateOCSP no insert is
\* made: parse-ca-log returns found without added and goes on with the
\* next line, parse-der exits with status 1.
C11_NoRetries ==
    /\ CallsInOrder
    /\ OCSPCallFailed =>
          /\ \A j \in 1..Len(calls) : ~IsInsert(calls[j])
          /\ InLogMode =>
                /\ pc \in {"line", "done"}
                /\ ret = [found |-> TRUE, added |-> FALSE, typ |-> cur.typ]
                /\ exitCode \in {-1, 0}
          /\ ~InLogMode => pc = "fatal" /\ exitCode = 1

\* a line's OCSP generation failed and the loop is at a later line of the log
C11_Witness ==
    /\ InLogMode /\ pc = "line" /\ idx <= Len(logData)
    /\ Len(calls) = 2 /\ IsLookup(calls[1]) /\ calls[1].res = "notfound"
    /\ IsOCSP(calls[2]) /\ calls[2].res = "error"
    /\ hist.last = "ocspfailed"
    /\ ret = [found |-> TRUE, added |-> FALSE, typ |-> cur.typ]

InDerMode == command = "parse-der"

\* the answer that lets the stage after call c run
GoesOn(c) == IF IsLookup(c) THEN c.res = "notfound" ELSE c.res = "ok"

\* C12: parse-der has no partial success: a failure of the DER's parse, the
\* lookup, the OCSP generation or the insert ends the process with a
\* non-zero status before any later stage's call, and the status is zero
\* only when the insert succeeded.
C12_SingleFileAllOrNothing ==
    InDerMode =>
        /\ CallsInOrder
        /\ \A i \in 1..Len(calls) :
              ~GoesOn(calls[i]) => Len(calls) = i /\ pc = "fatal" /\ exitCode = 1
        /\ hist.last = "parse" => calls = <<>> /\ pc = "fatal" /\ exitCode = 1
        /\ pc \in {"fatal", "usage"} => exitCode = 1 /\ Stores = hist.storeAtStart
        /\ exitCode # 0 => Stores = hist.storeAtStart
        /\ exitCode = 0 =>
              /\ pc = "done"
              /\ Len(calls) = 3 /\ IsInsert(calls[3]) /\ calls[3].res = "ok"
              /\ cur.serial \in StoreOf(calls[3].op)

\* parse-der's lookup failed: the process has exited with status 1 after that one call
C12_Witness ==
    /\ InDerMode /\ pc = "fatal" /\ exitCode = 1
    /\ Len(calls) = 1 /\ IsLookup(calls[1]) /\ calls[1].res = "error"
    /\ hist.last = "lookupfailed"
    /\ Stores = hist.storeAtStart

\* the existence check of the current candidate found the serial in storage
LookupFoundExisting ==
    calls # <<>> /\ IsLookup(calls[Len(calls)]) /\ calls[Len(calls)].res = "ok"

\* C13: AlreadyExists from the existence check is not an error in either
\* mode: parse-ca-log returns found without added and logs at informational
\* level only; parse-der does not stop with an error on it.
C13_AlreadyExistsNotAnError ==
    LookupFoundExisting =>
        /\ "err" \notin Range(diags) /\ "audit" \notin Range(diags)
        /\ InLogMode =>
              /\ pc \in {"line", "done"}
              /\ ret = [found |-> TRUE, added |-> FALSE, typ |-> cur.typ]
              /\ "info" \in Range(diags)
        /\ InDerMode => pc # "fatal" /\ exitCode # 1

\* the line carries one of the two orphaning labels
HasLabel(line) ==
    \E i \in DOMAIN line :
        line[i].key \in {"orphaning certificate", "orphaning precertificate"}

\* C14: for a line without an orphaning label or without the marker cert=,
\* storeParsedLogLine returns found = false, added = false and makes no
\* lookup, no GenerateOCSP and no insert.
C14_UnmatchedLineNoCalls ==
    (InLogMode /\ cur.line # <<>> /\ ~HasLabelAndMarker(cur.line)) =>
        /\ pc \in {"line", "done"}
        /\ ret = [found |-> FALSE, added |-> FALSE, typ |-> unknownOrphan]
        /\ calls = <<>>
        /\ hist.last = "nomatch"

\* a line with an orphaning label and no cert= was returned as no match,
\* after a line whose orphan was stored
C14_Witness ==
    /\ LineDone /\ hist.last = "nomatch"
    /\ HasLabel(cur.line) /\ ~HasLabelAndMarker(cur.line)
    /\ ret = [found |-> FALSE, added |-> FALSE, typ |-> unknownOrphan]
    /\ calls = <<>>
    /\ stats.certOrphansAdded + stats.precertOrphansAdded >= 1

\* this step processes a line that storeParsedLogLine returns as no match
NoMatchStep ==
    /\ InLogMode /\ pc = "line"
    /\ hist'.processed # hist.processed
    /\ hist'.last = "nomatch"

\* C15: parse-ca-log skips a non-empty line without the orphan markers
\* silently: processing it writes no diagnostic of any level and changes
\* none of the four counters.
C15_NoMatchSilent ==
    [][NoMatchStep => (diags' = <<>> /\ stats' = stats)]_vars

\* the last line had a label and cert= but no hex payload that extracts and decodes
MalformedHexLineDone ==
    LineDone /\ pc = "line" /\ hist.last \in {"noregex", "badhex"}

\* C16: in parse-ca-log a line with an orphaning label and cert= whose hex
\* payload does not extract or does not decode gives found = true,
\* added = false, exactly one diagnostic for the line and no remote call.
C16_MalformedHexOneDiagnostic ==
    MalformedHexLineDone =>
        /\ ret.found /\ ~ret.added
        /\ Len(diags) = 1
        /\ calls = <<>>

(***************************************************************************)
(* A run of parse-ca-log as a function of its inputs: the log, the storage *)
(* it starts from, and for each line which of the candidate's remote calls *)
(* fails ("none": the lookup answers from storage and the other calls      *)
(* succeed).                                                               *)
(***************************************************************************)
Faults == {"none", "lookup", "ocsp", "insert"}

\* the answer of the type's lookup against the storage st
lookupAnswer(op, serial, st, fault) ==
    IF fault = "lookup" THEN "error"
    ELSE IF serial \in (IF op = "GetCertificate" THEN st.cert ELSE st.precert)
    THEN "ok" ELSE "notfound"

\* the answer of the type's insert against the storage st
addAnswer(op, serial, st, fault) ==
    IF fault = "insert" THEN "error"
    ELSE IF serial \in (IF op = "AddCertificate" THEN st.cert ELSE st.precert)
    THEN "duplicate" ELSE "ok"

\* storeParsedLogLine: what it returns and the storage it leaves
lineResult(line, st, fault) ==
    LET sc == scanLineOf[line]
        chk == checkDERParseOf[sc.der]
        lop == lookupOp(chk.typ)
        lres == IF lop = "none" THEN "error" ELSE lookupAnswer(lop, chk.serial, st, fault)
        reg == parseRegIDOf[line]
        iop == insertOp(chk.typ)
        ires == IF iop = "none" THEN "error" ELSE addAnswer(iop, chk.serial, st, fault)
        no(found, typ) == [found |-> found, added |-> FALSE, typ |-> typ, store |-> st]
    IN IF sc.kind = "nomatch" THEN no(FALSE, unknownOrphan)
       ELSE IF sc.kind # "der" THEN no(TRUE, unknownOrphan)
       ELSE IF chk.err THEN no(TRUE, chk.typ)
       ELSE IF checkDERResult(lres) # "proceed" THEN no(TRUE, chk.typ)
       ELSE IF reg.err THEN no(TRUE, chk.typ)
       ELSE IF generateOCSPFailed(IF fault = "ocsp" THEN "error" ELSE "ok")
       THEN no(TRUE, chk.typ)
       ELSE IF ires # "ok" THEN no(TRUE, chk.typ)
       ELSE [found |-> TRUE, added |-> TRUE, typ |-> chk.typ,
             store |-> [cert |-> StoreAfter(st.cert, iop = "AddCertificate", chk.serial, ires),
                        precert |-> StoreAfter(st.precert, iop = "AddPrecertificate",
                                               chk.serial, ires)]]

\* main's loop from line i on: the counters after the last line
RECURSIVE batchFrom(_, _, _, _, _)
batchFrom(log, plan, i, st, acc) ==
    IF i > Len(log) THEN acc
    ELSE IF log[i] = <<>> THEN batchFrom(log, plan, loopNext(i), st, acc)
    ELSE LET r == lineResult(log[i], st, plan[i])
         IN batchFrom(log, plan, loopNext(i), r.store, tally(acc, r.found, r.added, r.typ))

\* the four counters parse-ca-log reports
batchCounts(log, plan, st) == batchFrom(log, plan, 1, st, ZeroStats)

\* the permutations of 1..n
PermutationsOf(n) == {p \in [1..n -> 1..n] : \A i, j \in 1..n : p[i] = p[j] => i = j}

\* the sequence s taken in the order p
Permuted(s, p) == [i \in 1..Len(s) |-> s[p[i]]]

\* a fault for each line of the log
FaultPlans(log) == [1..Len(log) -> Faults]

\* the log has two lines with the same DER, the first of them without a regID
SameDERTwice ==
    /\ Len(logData) = 2
    /\ scanLineOf[logData[1]].kind = "der"
    /\ scanLineOf[logData[1]].der = scanLineOf[logData[2]].der
    /\ parseRegIDOf[logData[1]].err /\ ~parseRegIDOf[logData[2]].err

\* C17: the four final counts of a parse-ca-log run do not depend on the
\* order of the lines: a log and any permutation of it, run from the same
\* storage with each candidate's calls failing alike, end with equal counts
\* (and the run's counters are those of the log in the order it has).  The
\* counts are no function of the backdate, so the orders are compared under
\* one of the backdates.
C17_CountsIndependentOfOrder ==
    (InLogMode /\ Len(logData) <= MaxLines) =>
        /\ (pc = "main" /\ backdateDuration = Hours(1)) =>
              \E orders \in {PermutationsOf(Len(logData))} :
                 \A plan \in FaultPlans(logData) :
                    \E counts \in {batchCounts(logData, plan, Stores)} :
                       \A p \in orders :
                          batchCounts(Permuted(logData, p), Permuted(plan, p), Stores) = counts
        /\ pc = "done" =>
              \E plan \in FaultPlans(logData) :
                  batchCounts(logData, plan, hist.storeAtStart) = stats

\* a run has ended on a log whose two lines carry the same certificate: the
\* second was stored, and in the other order the first would have been
C17_Witness ==
    /\ InLogMode /\ pc = "done" /\ SameDERTwice
    /\ hist.storeAtStart = EmptyStore
    /\ hist.last = "added"
    /\ stats.certOrphansFound = 2 /\ stats.certOrphansAdded = 1
    /\ LET plan == [i \in 1..2 |-> "none"]
           swap == [i \in 1..2 |-> 3 - i]
       IN /\ lineResult(logData[2], EmptyStore, "none").added
          /\ ~lineResult(logData[1], lineResult(logData[2], EmptyStore, "none").store,
                         "none").added
          /\ batchCounts(Permuted(logData, swap), Permuted(plan, swap), EmptyStore) = stats

\* which call of the current candidate returned an error
ObservedFault ==
    IF \E i \in 1..Len(calls) : calls[i].res = "error"
    THEN LET i == CHOOSE k \in 1..Len(calls) : calls[k].res = "error"
         IN IF IsLookup(calls[i]) THEN "lookup"
            ELSE IF IsOCSP(calls[i]) THEN "ocsp" ELSE "insert"
    ELSE "none"

\* what the last line returns when it is the first line processed in this run
AsFirstLine == lineResult(cur.line, hist.storeAtStart, ObservedFault)

\* a line of the log has just been processed
AfterLine == LineDone /\ pc = "line"

\* this run stored the last line's type and serial
StoredInThisRun ==
    \/ cur.typ = certOrphan /\ cur.serial \in GainedCerts
    \/ cur.typ = precertOrphan /\ cur.serial \in GainedPrecerts

\* C18 as stated: a line's (found, added, type) is the same whichever lines
\* of the log were processed before it, also when another line carries the
\* same DER: it is what the line returns when processed first.
C18_OutcomeIndependentOfEarlierLines ==
    AfterLine =>
        ret = [found |-> AsFirstLine.found, added |-> AsFirstLine.added,
               typ |-> AsFirstLine.typ]

\* C18 amended: found and type are the same whichever lines were processed
\* before; added is the same too unless an earlier line of the run stored a
\* candidate of the same type and serial, and then the line ends at the
\* existence check as already existing, with added = false.
C18_OutcomeDependsOnlyOnSameSerial ==
    AfterLine =>
        /\ ret.found = AsFirstLine.found
        /\ ret.typ = AsFirstLine.typ
        /\ ret.added # AsFirstLine.added =>
              /\ AsFirstLine.added /\ ~ret.added
              /\ hist.last = "exists"
              /\ StoredInThisRun

\* the second of two lines with the same certificate ended as already
\* existing after the first was stored
C18_Witness ==
    /\ AfterLine /\ Len(logData) = 2 /\ idx = 3
    /\ scanLineOf[logData[1]].der = scanLineOf[logData[2]].der
    /\ hist.storeAtStart = EmptyStore
    /\ hist.last = "exists"
    /\ ret = [found |-> TRUE, added |-> FALSE, typ |-> certOrphan]
    /\ AsFirstLine.added
    /\ stats.certOrphansFound = 2 /\ stats.certOrphansAdded = 1

\* how a line ends without a parsed certificate
NoCertOutcomes == {"nomatch", "noregex", "badhex", "parse"}

\* C19: the type Unknown is never returned for a DER that parsed:
\* storeParsedLogLine returns it only for a line that did not match, whose
\* hex payload was not extracted or decoded, or whose DER failed to parse;
\* so a matched line whose DER fails to parse (found = true, Unknown) moves
\* neither Found counter.
C19_UnknownOnlyWithoutCert ==
    /\ cur.cert # NoCert => cur.typ \in {certOrphan, precertOrphan}
    /\ LineDone =>
          /\ ret.typ = unknownOrphan <=> hist.last \in NoCertOutcomes
          /\ ret.typ = unknownOrphan <=> cur.cert = NoCert
          /\ hist.last = "parse" => ret.found /\ ~ret.added
    /\ (InLogMode /\ pc \in {"line", "done"}) =>
          stats.certOrphansFound + stats.precertOrphansFound
              = hist.classified[certOrphan] + hist.classified[precertOrphan]

\* the second line's DER failed to parse after the first line's was counted
C19_Witness ==
    /\ LineDone /\ idx = 3 /\ hist.last = "parse"
    /\ ret = [found |-> TRUE, added |-> FALSE, typ |-> unknownOrphan]
    /\ diags = <<"err", "err">>
    /\ stats.certOrphansFound + stats.precertOrphansFound = 1

(***************************************************************************)
(* The remote calls each mode makes for one candidate, as a function of    *)
(* the collaborators' responses resp = [lookup, ocsp, insert].             *)
(***************************************************************************)
\* the lookup, GenerateOCSP and insert calls for a parsed candidate
lookupCall(chk, resp) ==
    [op |-> lookupOp(chk.typ), serial |-> chk.serial, res |-> resp.lookup]

ocspCall(der, resp) ==
    [op |-> "GenerateOCSP", req |-> GenerateOCSPRequest(der), res |-> resp.ocsp]

insertCall(der, chk, id, issued, resp) ==
    AddCall(insertOp(chk.typ),
            [NoCandidate EXCEPT !.der = der, !.serial = chk.serial,
                                !.response = OCSPResponse(GenerateOCSPRequest(der)),
                                !.issuedDate = issued],
            id, resp.insert)

\* storeParsedLogLine's calls for a line
lineCalls(line, resp, backdate) ==
    LET sc == scanLine(line)
        chk == checkDERParse(sc.der)
        reg == parseRegID(line)
    IN IF sc.kind # "der" \/ chk.err \/ lookupOp(chk.typ) = "none" THEN <<>>
       ELSE IF checkDERResult(resp.lookup) # "proceed" \/ reg.err
       THEN <<lookupCall(chk, resp)>>
       ELSE IF generateOCSPFailed(resp.ocsp) \/ insertOp(chk.typ) = "none"
       THEN <<lookupCall(chk, resp), ocspCall(sc.der, resp)>>
       ELSE <<lookupCall(chk, resp), ocspCall(sc.der, resp),
              insertCall(sc.der, chk, reg.val, issuedDate(chk.cert, backdate), resp)>>

\* parse-der's calls for a DER file and --regID
derCalls(der, id, resp, backdate) ==
    LET chk == checkDERParse(der)
    IN IF id = 0 \/ chk.err \/ lookupOp(chk.typ) = "none" THEN <<>>
       ELSE IF checkDERResult(resp.lookup) # "proceed"
       THEN <<lookupCall(chk, resp)>>
       ELSE IF generateOCSPFailed(resp.ocsp) \/ insertOp(chk.typ) = "none"
       THEN <<lookupCall(chk, resp), ocspCall(der, resp)>>
       ELSE <<lookupCall(chk, resp), ocspCall(der, resp),
              insertCall(der, chk, id, issuedDateDer(chk.cert, backdate), resp)>>

\* the responses the current candidate's calls got ("error" for a call not made)
ObservedResponses ==
    LET at(i) == IF i <= Len(calls) THEN calls[i].res ELSE "error"
    IN [lookup |-> at(1), ocsp |-> at(2), insert |-> at(3)]

\* the CA's log line for an orphan of the label's type with this DER and regID
LineFor(t, der, id) ==
    <<Text(OrphaningLabel(t)), Field("cert", ToHex(der)), Field("regID", NatDigits(id))>>

\* the last line has a DER payload and a regID that is a non-zero int64
WellFormedLine ==
    /\ scanLine(cur.line).kind = "der"
    /\ ~parseRegID(cur.line).err
    /\ parseRegID(cur.line).val # 0

\* the sequence of calls holds an insert that succeeded
Inserted(cs) == \E i \in 1..Len(cs) : IsInsert(cs[i]) /\ cs[i].res = "ok"

\* C20: the two modes run the same pipeline: for the same DER, non-zero
\* registration id, backdate and collaborator responses, parse-der makes
\* the calls, with the same arguments, that parse-ca-log makes for a
\* well-formed line with that DER and regID, and one inserts exactly when
\* the other does.
C20_ModesMakeSameCalls ==
    /\ (InDerMode /\ regIDFlag # 0 /\ pc \in {"done", "fatal"}) =>
          /\ calls = derCalls(derFile, regIDFlag, ObservedResponses, backdateDuration)
          /\ \A t \in {certOrphan, precertOrphan} :
                LET batch == lineCalls(LineFor(t, derFile, regIDFlag), ObservedResponses,
                                       backdateDuration)
                IN /\ calls = batch
                   /\ Inserted(batch) <=> (pc = "done" /\ exitCode = 0)
    /\ (LineDone /\ pc = "line" /\ WellFormedLine) =>
          /\ calls = lineCalls(cur.line, ObservedResponses, backdateDuration)
          /\ LET single == derCalls(scanLine(cur.line).der, parseRegID(cur.line).val,
                                    ObservedResponses, backdateDuration)
             IN /\ calls = single
                /\ Inserted(single) <=> ret.added

\* parse-der has stored a precertificate with the calls the batch mode
\* makes for its line, under the backdate with a fraction
C20_Witness ==
    /\ InDerMode /\ pc = "done" /\ exitCode = 0
    /\ backdateDuration.nsec # 0
    /\ Len(calls) = 3 /\ calls[3].op = "AddPrecertificate" /\ calls[3].res = "ok"
    /\ calls = lineCalls(LineFor(precertOrphan, derFile, regIDFlag), ObservedResponses,
                         backdateDuration)

====
